---------------------------- MODULE Spec2Model ----------------------------
(***************************************************************************)
(* Model of src/main.py: the GDP extract / transform / load / query script *)
(* and its module-level driver.                                            *)
(*                                                                         *)
(* Strings that the code takes apart (cell text, GDP figures) are          *)
(* sequences of one-character strings.  A parsed HTML node is a record     *)
(* [tag, text, contents]: a NavigableString has tag "#text" and carries    *)
(* its characters in text, an element carries its children in contents.    *)
(* A GDP value in billions, rounded to 2 decimals, is the integer number   *)
(* of hundredths (23315.08 is 2331508).                                    *)
(***************************************************************************)
EXTENDS Integers, Sequences, FiniteSets, TLC

VARIABLES
    web,          \* the HTML document the URL currently serves
    runs,         \* number of times the script has been started
    pc,           \* line of main.py the driver executes next; 96 = past the last line
    exc,          \* "none", or the exception that terminated this process
    page,         \* the document this process fetched (NoPage before the fetch)
    prevPage,     \* the document the preceding process fetched, if it ran to the end
    df,           \* the module variable df
    halfUp,       \* millions values v for which np.round(v/1000, 2) lands on the upper neighbour of a tie
    csvFile,      \* contents of Countries_by_GDP.csv (NoFile when absent)
    db,           \* table Countries_by_GDP of World_Economies.db (NoTable when absent)
    connections,  \* connections this process has opened, in order
    sql_conn,     \* the module variable sql_conn: index into connections, 0 = unbound
    stdout,       \* what this process has printed
    logFile,      \* lines of ./etl_project_log.txt
    logMark,      \* length of the log file when this process started
    now           \* the wall clock, in whole seconds

vars == <<web, runs, pc, exc, page, prevPage, df, halfUp, csvFile, db,
          connections, sql_conn, stdout, logFile, logMark, now>>

-----------------------------------------------------------------------------
(* Bounds *)

MaxRows == 2        \* rows of the third table body, extract-only specification
MaxRecs == 2        \* records of a dataset handed to transform
MaxRuns == 2        \* consecutive runs of the script
MaxClock == 1       \* seconds the clock can advance

-----------------------------------------------------------------------------
(* Parsed HTML (BeautifulSoup(page, 'html.parser')) *)

\* The em-dash character U+2014, written as its HTML entity.
EMDASH == "&mdash;"

Str(chars) == [tag |-> "#text", text |-> chars, contents |-> <<>>]
Tag(name, kids) == [tag |-> name, text |-> <<>>, contents |-> kids]
None == [tag |-> "#none", text |-> <<>>, contents |-> <<>>]

RECURSIVE descendants(_)
\* Tag.descendants restricted to elements: every element below the given
\* child list, in document order.
descendants(kids) ==
    IF kids = <<>> THEN <<>>
    ELSE LET k == Head(kids)
         IN  (IF k.tag = "#text" THEN <<>> ELSE <<k>> \o descendants(k.contents))
             \o descendants(Tail(kids))

IsNamed(name, node) == node.tag = name

\* Tag.find_all(name): recursive, document order.
find_all(node, name) ==
    SelectSeq(descendants(node.contents), LAMBDA n : IsNamed(name, n))

\* Tag.find(name): first match of find_all, or None.
find(node, name) ==
    LET r == find_all(node, name) IN IF r = <<>> THEN None ELSE r[1]

\* `s in tag`: Tag.__contains__ is membership in tag.contents, and a string
\* equals a child only when the child is a NavigableString with those
\* characters.
tag_contains(node, s) ==
    \E i \in DOMAIN node.contents : node.contents[i] = Str(<<s>>)

-----------------------------------------------------------------------------
(* extract, lines 26-41 *)

table_attribs == <<"Country", "GDP_USD_millions">>

\* pd.DataFrame(columns=...): a dataset is its column names and its rows, each
\* row a record keyed by column name.
DataFrame(columns, data) == [columns |-> columns, data |-> data]

Returned(value) == [exc |-> "none", ret |-> value]
Raised(name) == [exc |-> name, ret |-> DataFrame(<<>>, <<>>)]

\* extract_row taking the country as the link's string, empty when the link
\* has no child, instead of subscripting its contents.
extract_row_link_string(row) ==
    LET col == find_all(row, "td")
    IN  IF Len(col) # 0
        THEN IF find(col[1], "a") = None
             THEN Returned(<<>>)
             ELSE IF Len(col) < 3
             THEN Raised("IndexError")
             ELSE IF tag_contains(col[3], EMDASH)
             THEN Returned(<<>>)
             ELSE IF col[3].contents = <<>>
             THEN Raised("IndexError")
             ELSE Returned(<<[Country |->
                                  IF find(col[1], "a").contents = <<>> THEN <<>>
                                  ELSE find(col[1], "a").contents[1].text,
                              GDP_USD_millions |-> col[3].contents[1].text]>>)
        ELSE Returned(<<>>)

\* One pass of the loop body, lines 34-40, for one row: the records the row
\* adds to the dataset, or the IndexError a subscript raises.  The
\* conjunction on line 36 short-circuits, so col[2] is evaluated only for a
\* row whose first cell holds a link.
extract_row(row) ==
    LET col == find_all(row, "td")
    IN  IF Len(col) # 0
        THEN IF find(col[1], "a") = None
             THEN Returned(<<>>)
             ELSE IF Len(col) < 3
             THEN Raised("IndexError")
             ELSE IF tag_contains(col[3], EMDASH)
             THEN Returned(<<>>)
             ELSE IF find(col[1], "a").contents = <<>> \/ col[3].contents = <<>>
             THEN Raised("IndexError")
             ELSE Returned(<<[Country |-> find(col[1], "a").contents[1].text,
                              GDP_USD_millions |-> col[3].contents[1].text]>>)
        ELSE Returned(<<>>)

RECURSIVE extract_rows(_, _)
\* The for loop of lines 33-40 over the remaining rows, dataset being the
\* rows concatenated so far.
extract_rows(rows, dataset) ==
    IF rows = <<>> THEN Returned(dataset)
    ELSE LET r == extract_row(Head(rows))
         IN  IF r.exc # "none" THEN r
             ELSE extract_rows(Tail(rows), dataset \o r.ret)

\* extract reading the table body at index 1 instead of index 2.
extract_second_table(data, table_attributes) ==
    LET tables == find_all(data, "tbody")
    IN  IF Len(tables) < 2 THEN Raised("IndexError")
        ELSE LET r == extract_rows(find_all(tables[2], "tr"), <<>>)
             IN  IF r.exc # "none" THEN r
                 ELSE Returned(DataFrame(table_attributes, r.ret))

\* extract applied to the parsed document (the fetch is the caller's step).
extract(data, table_attributes) ==
    LET tables == find_all(data, "tbody")
    IN  IF Len(tables) < 3 THEN Raised("IndexError")
        ELSE LET r == extract_rows(find_all(tables[3], "tr"), <<>>)
             IN  IF r.exc # "none" THEN r
                 ELSE Returned(DataFrame(table_attributes, r.ret))

-----------------------------------------------------------------------------
(* transform, lines 44-52 *)

Digits == <<"0", "1", "2", "3", "4", "5", "6", "7", "8", "9">>
IsDigit(c) == \E d \in DOMAIN Digits : Digits[d] = c
DigitValue(c) == (CHOOSE d \in DOMAIN Digits : Digits[d] = c) - 1
IsSpace(c) == c \in {" ", "\n"}

\* "".join(x.split(',')): the string without its commas.
split_join(x) == SelectSeq(x, LAMBDA c : c # ",")

RECURSIVE lstrip(_)
lstrip(s) == IF s # <<>> /\ IsSpace(Head(s)) THEN lstrip(Tail(s)) ELSE s

RECURSIVE rstrip(_)
rstrip(s) ==
    IF s # <<>> /\ IsSpace(s[Len(s)]) THEN rstrip(SubSeq(s, 1, Len(s) - 1)) ELSE s

\* float(s) accepts surrounding whitespace around the number.  Over the
\* characters of the model a number is a non-empty run of digits.
float_ok(s) ==
    LET t == rstrip(lstrip(s))
    IN  t # <<>> /\ \A i \in DOMAIN t : IsDigit(t[i])

RECURSIVE digits_value(_, _)
digits_value(t, acc) ==
    IF t = <<>> THEN acc
    ELSE digits_value(Tail(t), 10 * acc + DigitValue(Head(t)))

\* float(s) for a string float_ok accepts: the number of millions.
float(s) == digits_value(rstrip(lstrip(s)), 0)

MillionsPerHundredth == 10

\* np_round cutting the third decimal off instead of rounding.
np_truncate(x, up) == x \div MillionsPerHundredth

\* np.round(x / 1000, 2) in hundredths of a billion.  x/1000*100 is computed
\* in binary floating point, so a value whose third decimal is exactly 5
\* lands on either neighbour; up holds the values that land on the upper one.
np_round(x, up) ==
    LET q == x \div MillionsPerHundredth
        r == x % MillionsPerHundredth
    IN  IF r > 5 \/ (r = 5 /\ x \in up) THEN q + 1 ELSE q

\* columns={"GDP_USD_millions": "GDP_USD_billions"}
rename(c) == IF c = "GDP_USD_millions" THEN "GDP_USD_billions" ELSE c

transform(dataset, up) ==
    LET gdp_list == [i \in DOMAIN dataset.data |-> dataset.data[i].GDP_USD_millions]
    IN  IF \E i \in DOMAIN gdp_list : ~float_ok(split_join(gdp_list[i]))
        THEN Raised("ValueError")
        ELSE Returned(DataFrame(
                 [j \in DOMAIN dataset.columns |-> rename(dataset.columns[j])],
                 [i \in DOMAIN dataset.data |->
                     [Country |-> dataset.data[i].Country,
                      GDP_USD_billions |->
                          np_round(float(split_join(gdp_list[i])), up)]]))

-----------------------------------------------------------------------------
(* load_to_csv, load_to_db, run_query, log_progress: lines 55-78 *)

\* dataset.to_csv(path): a header line, then one line per record led by the
\* default index column.  A line is the tuple of its fields.
to_csv(dataset) ==
    <<[index |-> "", fields |-> dataset.columns]>> \o
    [i \in DOMAIN dataset.data |->
        [index |-> i - 1,
         fields |-> <<dataset.data[i].Country, dataset.data[i].GDP_USD_billions>>]]

NoFile == <<>>
NoTable == DataFrame(<<>>, <<>>)

\* to_sql with if_exists='append'.
to_sql_append(table, dataset) ==
    DataFrame(dataset.columns, table.data \o dataset.data)

\* dataset.to_sql(name, con, if_exists='replace', index=False): the table is
\* dropped if it exists, created from the columns, and all rows inserted.
to_sql(table, dataset) == DataFrame(dataset.columns, dataset.data)

Threshold == 100
Hundredths == 100
tb_name == "Countries_by_GDP"
sql_statement == "SELECT * from Countries_by_GDP WHERE GDP_USD_billions >= 100"

\* read_sql with a strict comparison in the WHERE clause.
read_sql_strict(table) ==
    DataFrame(table.columns,
              SelectSeq(table.data,
                        LAMBDA r : r.GDP_USD_billions > Threshold * Hundredths))

\* pd.read_sql(sql_statement, con): every column of the rows the WHERE clause
\* keeps, in table order.
read_sql(table) ==
    DataFrame(table.columns,
              SelectSeq(table.data,
                        LAMBDA r : r.GDP_USD_billions >= Threshold * Hundredths))

\* The line log_progress writes: timestamp + ' : ' + message.
log_line(timestamp, message) == <<timestamp, " : ", message>>

\* The message the driver logs at each of its log_progress calls.
Message(line) ==
    CASE line = 81 -> "Preliminaries complete. Initiating ETL process"
      [] line = 83 -> "Data extraction complete. Initiating Transformation process"
      [] line = 85 -> "Data transformation complete. Initiating loading process"
      [] line = 87 -> "Data saved to CSV file"
      [] line = 89 -> "SQL Connection initiated."
      [] line = 91 -> "Data loaded to Database as table. Running the query"
      [] line = 94 -> "Process Complete."

LogLines == {81, 83, 85, 87, 89, 91, 94}

-----------------------------------------------------------------------------
(* Input documents *)

SeqsUpTo(S, n) == UNION {[1..k -> S] : k \in 0..n}

\* First cells of a row: a linked name, a name behind a flag icon, a linked
\* name in bold, an unlinked aggregate, a link with no text, and a link
\* whose text is split by markup.
NameCells ==
    { Tag("td", <<Tag("a", <<Str(<<"U", "S">>)>>)>>),
      Tag("td", <<Tag("span", <<>>), Str(<<" ">>), Tag("a", <<Str(<<"X">>)>>)>>),
      Tag("td", <<Tag("b", <<Tag("a", <<Str(<<"E", "U">>)>>)>>)>>),
      Tag("td", <<Tag("b", <<Str(<<"W">>)>>)>>),
      Tag("td", <<Tag("a", <<>>)>>),
      Tag("td", <<Tag("a", <<Str(<<"N">>), Tag("i", <<Str(<<"Z">>)>>)>>)>>) }

\* Third cells of a row: a figure, the placeholder alone, the placeholder
\* followed by a newline, the placeholder beside a footnote mark (either
\* order), a figure with a footnote mark, and an empty cell.
GdpCells ==
    { Tag("td", <<Str(<<"1", ",", "2", "0", "0">>)>>),
      Tag("td", <<Str(<<EMDASH>>)>>),
      Tag("td", <<Str(<<EMDASH, "\n">>)>>),
      Tag("td", <<Str(<<EMDASH>>), Tag("sup", <<Str(<<"a">>)>>)>>),
      Tag("td", <<Tag("sup", <<Str(<<"a">>)>>), Str(<<EMDASH>>)>>),
      Tag("td", <<Str(<<"9", "7">>), Tag("sup", <<Str(<<"b">>)>>)>>),
      Tag("td", <<>>) }

MidCell == Tag("td", <<Str(<<"7">>)>>)
HeaderRow == Tag("tr", <<Tag("th", <<Str(<<"h">>)>>)>>)

\* Rows of the extract-only specification: every pairing of a first and a
\* third cell, a header row without data cells, and rows with a single cell.
Rows ==
    {Tag("tr", <<n, MidCell, g>>) : n \in NameCells, g \in GdpCells}
    \cup {HeaderRow}
    \cup {Tag("tr", <<n>>) : n \in NameCells}

\* A table body other than the third: one well-formed row of its own.
Decoy(name) ==
    Tag("tbody", <<Tag("tr", <<Tag("td", <<Tag("a", <<Str(<<name>>)>>)>>),
                               MidCell,
                               Tag("td", <<Str(<<"5">>)>>)>>)>>)

\* A page with four table bodies, rows being those of the third.
Doc(rows) ==
    Tag("html", <<Decoy("P"), Decoy("Q"), Tag("tbody", rows), Decoy("R")>>)

\* A page with only two table bodies.
ShortDoc == Tag("html", <<Decoy("P"), Decoy("Q")>>)

Documents == {Doc(rows) : rows \in SeqsUpTo(Rows, MaxRows)} \cup {ShortDoc}

\* Pages of the whole-pipeline specification.
GdpRow(name, figure) ==
    Tag("tr", <<Tag("td", <<Tag("a", <<Str(name)>>)>>), MidCell,
                Tag("td", <<Str(figure)>>)>>)

RowUS == GdpRow(<<"U", "S">>, <<"2", "6", ",", "8", "5", "4", ",", "5", "9", "9">>)
RowX == GdpRow(<<"X">>, <<"1", ",", "2", "0", "0">>)
RowB == GdpRow(<<"B">>, <<"1", "0", "0", ",", "0", "0", "0">>)
RowH == GdpRow(<<"H">>, <<"9", "9", ",", "9", "9", "4">>)
RowNoData == GdpRow(<<"N">>, <<EMDASH>>)
RowNoDataNewline == GdpRow(<<"N">>, <<EMDASH, "\n">>)
RowWorld == Tag("tr", <<Tag("td", <<Tag("b", <<Str(<<"W">>)>>)>>), MidCell,
                        Tag("td", <<Str(<<EMDASH>>)>>)>>)

Snapshots ==
    { Doc(<<HeaderRow, RowUS, RowWorld, RowNoData, RowX>>),
      Doc(<<RowB, RowH>>),
      Doc(<<RowX>>),
      Doc(<<RowNoDataNewline>>),
      ShortDoc }

-----------------------------------------------------------------------------
(* The driver, lines 81-95 *)

Unbound == DataFrame(<<>>, <<>>)
\* Running for a driver that carries on after an exception.
RunningAfterException == pc < 96

Running == exc = "none" /\ pc < 96
Ended == exc # "none" \/ pc = 96

RECURSIVE Prefixes(_)
Prefixes(s) == IF s = <<>> THEN {<<>>} ELSE {s} \cup Prefixes(SubSeq(s, 1, Len(s) - 1))

\* The process ends with an uncaught exception: no later line runs.
Abort(name) == exc' = name /\ pc' = pc

\* An assignment  x = f(...) : x is bound to what the call returns, and is
\* left as it was when the call raises.
Assigned(r, old) == IF r.exc = "none" THEN r.ret ELSE old

\* After a call the driver goes on at line next, or ends with the exception
\* the call raised.
Outcome(r, next) ==
    IF r.exc = "none" THEN pc' = next /\ exc' = exc ELSE Abort(r.exc)

\* LogProgress opening the file with mode "w".
LogProgressTruncating ==
    /\ exc = "none" /\ pc \in LogLines
    /\ logFile' = <<<<now, " : ", Message(pc)>>>>
    /\ pc' = IF pc = 94 THEN 95 ELSE pc + 1
    /\ UNCHANGED <<web, runs, exc, page, prevPage, df, halfUp, csvFile, db,
                   connections, sql_conn, stdout, logMark, now>>

\* log_progress(message), lines 72-78, at any of the driver's seven calls:
\* the file is opened for append and one line is written.
LogProgress ==
    /\ Running /\ pc \in LogLines
    /\ logFile' = Append(logFile, log_line(now, Message(pc)))
    /\ pc' = IF pc = 94 THEN 95 ELSE pc + 1
    /\ UNCHANGED <<web, runs, exc, page, prevPage, df, halfUp, csvFile, db,
                   connections, sql_conn, stdout, logMark, now>>

\* Line 82: df = extract(URL, table_attribs), the page fetched being what
\* the URL serves now.
Extract ==
    /\ Running /\ pc = 82
    /\ page' = web
    /\ df' = Assigned(extract(web, table_attribs), df)
    /\ Outcome(extract(web, table_attribs), 83)
    /\ UNCHANGED <<web, runs, prevPage, halfUp, csvFile, db, connections,
                   sql_conn, stdout, logFile, logMark, now>>

\* Line 28 raises: requests.get fails or times out.
ExtractFails ==
    /\ Running /\ pc = 82
    /\ Abort("RequestException")
    /\ UNCHANGED <<web, runs, page, prevPage, df, halfUp, csvFile, db,
                   connections, sql_conn, stdout, logFile, logMark, now>>

\* Line 84: df = transform(df).
Transform ==
    /\ Running /\ pc = 84
    /\ df' = Assigned(transform(df, halfUp), df)
    /\ Outcome(transform(df, halfUp), 85)
    /\ UNCHANGED <<web, runs, page, prevPage, halfUp, csvFile, db, connections,
                   sql_conn, stdout, logFile, logMark, now>>

\* LoadToCsv adding to the file instead of overwriting it.
LoadToCsvAppending ==
    /\ exc = "none" /\ pc = 86
    /\ csvFile' = csvFile \o to_csv(df)
    /\ pc' = 87
    /\ UNCHANGED <<web, runs, exc, page, prevPage, df, halfUp, db, connections,
                   sql_conn, stdout, logFile, logMark, now>>

\* Line 86: load_to_csv(df, csv) overwrites the file.
LoadToCsv ==
    /\ Running /\ pc = 86
    /\ csvFile' = to_csv(df)
    /\ pc' = 87
    /\ UNCHANGED <<web, runs, exc, page, prevPage, df, halfUp, db, connections,
                   sql_conn, stdout, logFile, logMark, now>>

\* Line 57 raises: the file cannot be opened, or the write stops part-way
\* and leaves a truncated file.
LoadToCsvFails ==
    /\ Running /\ pc = 86
    /\ csvFile' \in {csvFile} \cup (Prefixes(to_csv(df)) \ {to_csv(df)})
    /\ Abort("OSError")
    /\ UNCHANGED <<web, runs, page, prevPage, df, halfUp, db, connections,
                   sql_conn, stdout, logFile, logMark, now>>

\* Line 88: sql_conn = sqlite3.connect('World_Economies.db').
Connect ==
    /\ Running /\ pc = 88
    /\ connections' = Append(connections, [open |-> TRUE, ops |-> <<>>])
    /\ sql_conn' = Len(connections) + 1
    /\ pc' = 89
    /\ UNCHANGED <<web, runs, exc, page, prevPage, df, halfUp, csvFile, db,
                   stdout, logFile, logMark, now>>

\* Line 88 raises: the database file cannot be opened.
ConnectFails ==
    /\ Running /\ pc = 88
    /\ Abort("OperationalError")
    /\ UNCHANGED <<web, runs, page, prevPage, df, halfUp, csvFile, db,
                   connections, sql_conn, stdout, logFile, logMark, now>>

\* The connection a call is handed records the call.
Use(conns, c, op) == [conns EXCEPT ![c].ops = Append(@, op)]

\* Line 90: load_to_db(df, sql_conn, tb_name).
LoadToDb ==
    /\ Running /\ pc = 90
    /\ connections[sql_conn].open
    /\ db' = to_sql(db, df)
    /\ connections' = Use(connections, sql_conn, "to_sql")
    /\ pc' = 91
    /\ UNCHANGED <<web, runs, exc, page, prevPage, df, halfUp, csvFile,
                   sql_conn, stdout, logFile, logMark, now>>

\* Line 62 raises: before the drop, after the drop, or while inserting.
LoadToDbFails ==
    /\ Running /\ pc = 90
    /\ db' \in {db, NoTable}
               \cup {DataFrame(df.columns, d) : d \in Prefixes(df.data) \ {df.data}}
    /\ connections' = Use(connections, sql_conn, "to_sql")
    /\ Abort("DatabaseError")
    /\ UNCHANGED <<web, runs, page, prevPage, df, halfUp, csvFile, sql_conn,
                   stdout, logFile, logMark, now>>

\* Lines 92-93: the statement is built and run_query prints it and its result.
RunQuery ==
    /\ Running /\ pc = 92
    /\ connections[sql_conn].open
    /\ stdout' = stdout \o <<sql_statement, read_sql(db)>>
    /\ connections' = Use(connections, sql_conn, "read_sql")
    /\ pc' = 94
    /\ UNCHANGED <<web, runs, exc, page, prevPage, df, halfUp, csvFile, db,
                   sql_conn, logFile, logMark, now>>

\* Line 68 raises, after line 67 has printed the statement.
RunQueryFails ==
    /\ Running /\ pc = 92
    /\ stdout' = Append(stdout, sql_statement)
    /\ connections' = Use(connections, sql_conn, "read_sql")
    /\ Abort("DatabaseError")
    /\ UNCHANGED <<web, runs, page, prevPage, df, halfUp, csvFile, db,
                   sql_conn, logFile, logMark, now>>

\* Close leaving the connection open.
CloseSkipped ==
    /\ exc = "none" /\ pc = 95
    /\ pc' = 96
    /\ UNCHANGED <<web, runs, exc, page, prevPage, df, halfUp, csvFile, db,
                   connections, sql_conn, stdout, logFile, logMark, now>>

\* Line 95: sql_conn.close().
Close ==
    /\ Running /\ pc = 95
    /\ connections' = [connections EXCEPT ![sql_conn].open = FALSE]
    /\ pc' = 96
    /\ UNCHANGED <<web, runs, exc, page, prevPage, df, halfUp, csvFile, db,
                   sql_conn, stdout, logFile, logMark, now>>

\* A second passes.  The clock is read by log_progress only; it moves while
\* the driver waits for the page on line 82 and between two runs.
Tick ==
    /\ now < MaxClock
    /\ (Running /\ pc = 82) \/ (Ended /\ runs < MaxRuns)
    /\ now' = now + 1
    /\ UNCHANGED <<web, runs, pc, exc, page, prevPage, df, halfUp, csvFile, db,
                   connections, sql_conn, stdout, logFile, logMark>>

\* The source page is revised between two runs of the script.
Publish ==
    /\ Ended /\ runs < MaxRuns
    /\ web' \in Snapshots \ {web}
    /\ UNCHANGED <<runs, pc, exc, page, prevPage, df, halfUp, csvFile, db,
                   connections, sql_conn, stdout, logFile, logMark, now>>

\* The script is run again: a new process starts at line 81 with the files
\* the previous one left.
Start ==
    /\ Ended /\ runs < MaxRuns
    /\ runs' = runs + 1
    /\ pc' = 81
    /\ exc' = "none"
    /\ prevPage' = IF pc = 96 THEN page ELSE None
    /\ page' = None
    /\ df' = Unbound
    /\ connections' = <<>>
    /\ sql_conn' = 0
    /\ stdout' = <<>>
    /\ logMark' = Len(logFile)
    /\ UNCHANGED <<web, halfUp, csvFile, db, logFile, now>>

Init ==
    /\ web \in Snapshots
    /\ runs = 1
    /\ pc = 81
    /\ exc = "none"
    /\ page = None
    /\ prevPage = None
    /\ df = Unbound
    /\ halfUp = {}
    /\ csvFile = NoFile
    /\ db = NoTable
    /\ connections = <<>>
    /\ sql_conn = 0
    /\ stdout = <<>>
    /\ logFile = <<>>
    /\ logMark = 0
    /\ now = 0

Step ==
    \/ LogProgress
    \/ Extract
    \/ Transform
    \/ LoadToCsv
    \/ Connect
    \/ LoadToDb
    \/ RunQuery
    \/ Close

Fault ==
    \/ ExtractFails
    \/ LoadToCsvFails
    \/ ConnectFails
    \/ LoadToDbFails
    \/ RunQueryFails

Next == Step \/ Fault \/ Tick \/ Publish \/ Start

Spec == Init /\ [][Next]_vars

Exceptions == {"IndexError", "ValueError", "RequestException", "OSError",
               "OperationalError", "DatabaseError"}

\* The running process leaves the line it is at, for another line or with an
\* exception.
Advance ==
    /\ Running
    /\ pc' \in 81..96
    /\ exc' \in {"none"} \cup Exceptions
    /\ (pc' # pc \/ exc' # exc)

\* The interpreter keeps executing a process that has not ended; nothing
\* obliges anyone to start the script again.
FairSpec == Spec /\ WF_<<pc, exc>>(Advance)

-----------------------------------------------------------------------------
(* extract on its own: the first run has logged line 81 and calls extract on
   any page of Documents. *)

InitExtract ==
    /\ web \in Documents
    /\ runs = 1
    /\ pc = 82
    /\ exc = "none"
    /\ page = None
    /\ prevPage = None
    /\ df = Unbound
    /\ halfUp = {}
    /\ csvFile = NoFile
    /\ db = NoTable
    /\ connections = <<>>
    /\ sql_conn = 0
    /\ stdout = <<>>
    /\ logFile = <<log_line(0, Message(81))>>
    /\ logMark = 0
    /\ now = 0

NextExtract == Extract \/ ExtractFails

SpecExtract == InitExtract /\ [][NextExtract]_vars

(* transform on its own: the first run has extracted a dataset of up to
   MaxRecs records and calls transform. *)

Figures ==
    { <<"2", "3", ",", "3", "1", "5", ",", "0", "8", "1">>,
      <<"1", ",", "2", "0", "5">>,
      <<"9", "9", ",", "9", "9", "5">>,
      <<"7">>,
      <<" ", "1", "2", "4", "\n">>,
      <<"1", ",", ",", "0">>,
      <<EMDASH, "\n">>,
      <<"n", "/", "a">> }

FigureRows == {GdpRow(c, f) : c \in {<<"U", "S">>, <<"X">>}, f \in Figures}

TransformInputs == {Doc(rows) : rows \in SeqsUpTo(FigureRows, MaxRecs)}

\* The millions values of Figures whose third decimal in billions is a 5.
Ties == {1205, 99995}

InitTransform ==
    /\ web \in TransformInputs
    /\ runs = 1
    /\ pc = 84
    /\ exc = "none"
    /\ page = web
    /\ prevPage = None
    /\ df = extract(web, table_attribs).ret
    /\ halfUp \in SUBSET Ties
    /\ csvFile = NoFile
    /\ db = NoTable
    /\ connections = <<>>
    /\ sql_conn = 0
    /\ stdout = <<>>
    /\ logFile = <<log_line(0, Message(81)), log_line(0, Message(83))>>
    /\ logMark = 0
    /\ now = 0

NextTransform == Transform

SpecTransform == InitTransform /\ [][NextTransform]_vars

-----------------------------------------------------------------------------
(* Properties of extract *)

\* The document read directly: the rows of the third table body, the data
\* cells of a row, the links and the text below a node.
SelectedRows(doc) == doc.contents[3].contents
DataCells(row) == SelectSeq(row.contents, LAMBDA c : c.tag = "td")

RECURSIVE FirstLink(_)
FirstLink(kids) ==
    IF kids = <<>> THEN None
    ELSE IF Head(kids).tag = "a" THEN Head(kids)
    ELSE LET inner == FirstLink(Head(kids).contents)
         IN  IF inner # None THEN inner ELSE FirstLink(Tail(kids))

HasLink(cell) == FirstLink(cell.contents) # None

RECURSIVE TextOf(_)
TextOf(kids) ==
    IF kids = <<>> THEN <<>>
    ELSE (IF Head(kids).tag = "#text" THEN Head(kids).text
          ELSE TextOf(Head(kids).contents)) \o TextOf(Tail(kids))

HasChar(chars, c) == \E i \in DOMAIN chars : chars[i] = c

\* Rows with data cells whose first cell holds a hyperlink.
LinkedRows(doc) ==
    {j \in DOMAIN SelectedRows(doc) :
        /\ DataCells(SelectedRows(doc)[j]) # <<>>
        /\ HasLink(DataCells(SelectedRows(doc)[j])[1])}

Injective(f) == \A a, b \in DOMAIN f : f[a] = f[b] => a = b

ExtractReturned == pc = 83 /\ exc = "none"

\* C1: every record extract returns has a non-empty country and comes from
\* its own row of the selected table, a row with data cells whose first cell
\* holds a hyperlink that carries the record's country; rows without data
\* cells or without a link in the first cell account for no record.
C1_RecordsComeFromLinkedRows ==
    ExtractReturned =>
        /\ \A i \in DOMAIN df.data : df.data[i].Country # <<>>
        /\ \E f \in [DOMAIN df.data -> LinkedRows(page)] :
              /\ Injective(f)
              /\ \A i \in DOMAIN df.data :
                    LET link == FirstLink(DataCells(SelectedRows(page)[f[i]])[1].contents)
                    IN  \E k \in DOMAIN link.contents :
                            link.contents[k] = Str(df.data[i].Country)

\* A record was returned from a table that also has a row without data
\* cells and a row whose first cell has no link.
C1_Witness ==
    /\ ExtractReturned
    /\ Len(df.data) = 1
    /\ Len(SelectedRows(page)) = 2
    /\ \E j \in DOMAIN SelectedRows(page) :
          /\ DataCells(SelectedRows(page)[j]) # <<>>
          /\ ~HasLink(DataCells(SelectedRows(page)[j])[1])

\* Rows the sentence about the placeholder lets through: linked rows whose
\* third cell's text has no em-dash in it.
RowsWithFigure(doc) ==
    {j \in LinkedRows(doc) :
        ~HasChar(TextOf(DataCells(SelectedRows(doc)[j])[3].contents), EMDASH)}

\* C2: no record is emitted for a row whose third cell's text contains the
\* em-dash placeholder, so there are no more records than linked rows
\* without the placeholder and no record's GDP value contains it.
C2_PlaceholderRowsSkipped ==
    ExtractReturned =>
        /\ Len(df.data) <= Cardinality(RowsWithFigure(page))
        /\ \A i \in DOMAIN df.data : ~HasChar(df.data[i].GDP_USD_millions, EMDASH)

\* Rows the condition on line 36 lets through.
Survives(row) ==
    /\ DataCells(row) # <<>>
    /\ HasLink(DataCells(row)[1])
    /\ \A k \in DOMAIN DataCells(row)[3].contents :
          DataCells(row)[3].contents[k] # Str(<<EMDASH>>)

Survivors(doc) == SelectSeq(SelectedRows(doc), Survives)

-----------------------------------------------------------------------------
(* Properties of transform *)

RECURSIVE DecimalValue(_)
\* The number a run of decimal digits denotes.
DecimalValue(ds) ==
    IF ds = <<>> THEN 0
    ELSE 10 * DecimalValue(SubSeq(ds, 1, Len(ds) - 1)) + DigitValue(ds[Len(ds)])

\* The millions a GDP string states once its separators are dropped.
Millions(s) == DecimalValue(SelectSeq(s, IsDigit))

\* h hundredths of a billion is m millions divided by 1000 and rounded to 2
\* decimals: no other multiple of 0.01 is nearer to m / 1000.
RoundedBillions(h, m) == 10 * h - m <= 5 /\ m - 10 * h <= 5

\* C4: transform keeps length, order and countries, renames the value field
\* to the billions name, and every value is the GDP string without its
\* separators, divided by 1000 and rounded to 2 decimals; "23,315,081"
\* gives 23315.08.
C4_TransformConvertsInPlace ==
    [][(pc = 84 /\ pc' = 85) =>
          /\ df'.columns = <<"Country", "GDP_USD_billions">>
          /\ Len(df'.data) = Len(df.data)
          /\ \A i \in DOMAIN df.data :
                /\ DOMAIN df'.data[i] = {"Country", "GDP_USD_billions"}
                /\ df'.data[i].Country = df.data[i].Country
                /\ RoundedBillions(df'.data[i].GDP_USD_billions,
                                   Millions(df.data[i].GDP_USD_millions))
                /\ (df.data[i].GDP_USD_millions =
                        <<"2", "3", ",", "3", "1", "5", ",", "0", "8", "1">>
                    => df'.data[i].GDP_USD_billions = 2331508)]_vars

\* transform returned two records, the second from "23,315,081" and the
\* first rounded up.
C4_Witness ==
    /\ pc = 85 /\ exc = "none"
    /\ Len(df.data) = 2
    /\ df.data[1].Country # df.data[2].Country
    /\ df.data[1].GDP_USD_billions = 1
    /\ df.data[2].GDP_USD_billions = 2331508

-----------------------------------------------------------------------------
(* Properties of the load, the query and the log *)

Range(seq) == {seq[i] : i \in DOMAIN seq}

QueryPrinted == exc = "none" /\ pc \in {94, 95, 96}

Loaded == exc = "none" /\ pc \in 91..96

\* C6: once load_to_db has completed the table holds exactly the columns and
\* rows of the dataset passed in, whatever it held before.
C6_LoadReplacesTable ==
    Loaded => db.columns = df.columns /\ db.data = df.data

\* A second run loaded fewer rows than the table held from the first.
C6_Witness ==
    /\ Loaded
    /\ runs = 2
    /\ prevPage # None
    /\ db.data # <<>>
    /\ Len(db.data) < Len(extract(prevPage, table_attribs).ret.data)

IsPrefix(s, t) == Len(s) <= Len(t) /\ SubSeq(t, 1, Len(s)) = s

\* A step in which the running process returns from a log_progress call.
LogCall == Running /\ pc \in LogLines /\ runs' = runs /\ pc' # pc

\* C7: the log is append-only.  Every step leaves the lines already in the
\* file as they were, a log_progress call adds exactly one line
\* <timestamp, " : ", message> at the end, and nothing else writes the file;
\* so the lines of a run start where the lines of the runs before it end.
C7_LogAppendOnly ==
    [][/\ IsPrefix(logFile, logFile')
       /\ LogCall => /\ Len(logFile') = Len(logFile) + 1
                     /\ logFile'[Len(logFile')] = <<now, " : ", Message(pc)>>
       /\ ~LogCall => logFile' = logFile
       /\ logMark' <= Len(logFile')
       /\ runs' # runs => logMark' = Len(logFile)]_vars

\* The second run has written lines after the seven of the first.
C7_Witness ==
    /\ runs = 2
    /\ logMark = 7
    /\ Len(logFile) > logMark
    /\ logFile[1][3] = Message(81)
    /\ logFile[logMark + 1][3] = Message(81)

\* C8: a run that fetches the page the preceding complete run fetched leaves
\* the CSV file and the table as that run left them, and its log lines are
\* added to those already there.
C8_SecondRunSameOutputs ==
    [][/\ (pc = 86 /\ pc' = 87 /\ page = prevPage) => csvFile' = csvFile
       /\ (pc = 90 /\ pc' = 91 /\ page = prevPage) => db' = db
       /\ (pc' = 96 /\ page = prevPage) =>
             Len(logFile') = logMark + 7 /\ logMark >= 7]_vars

\* The second run has completed on the page of the first, with records in
\* the CSV file and the table.
C8_Witness ==
    /\ runs = 2
    /\ pc = 96
    /\ page = prevPage
    /\ Len(csvFile) = 3
    /\ Len(db.data) = 2

-----------------------------------------------------------------------------
(* Properties of the driver *)

\* The stage the driver is in: INIT until extract has returned, EXTRACTED
\* until transform has, and so on to DONE once the connection is closed.
Stages == <<"INIT", "EXTRACTED", "TRANSFORMED", "CSV_SAVED", "DB_CONNECTED",
            "DB_LOADED", "QUERIED", "DONE">>
StageIdx(line) == Cardinality({l \in {83, 85, 87, 89, 91, 94, 96} : l <= line})
Stage(line) == Stages[StageIdx(line) + 1]

Milestones == <<81, 83, 85, 87, 89, 91, 94>>

\* The messages of the lines this process has logged.
RunMessages ==
    [i \in 1..(Len(logFile) - logMark) |-> logFile[logMark + i][3]]

\* The first n milestones the driver logs.
FirstMilestones(n) == [i \in 1..n |-> Message(Milestones[i])]

\* C9: while no stage raises the driver moves through the stages in order,
\* one at a time; it has logged one milestone per stage entered, plus the
\* one of the stage under way; it opens one connection, hands that one to
\* the load and to the query, and reaches DONE with it closed.
C9_StagesInOrder ==
    /\ [][(runs' = runs /\ exc' = "none") =>
             \/ Stage(pc') = Stage(pc)
             \/ StageIdx(pc') = StageIdx(pc) + 1]_vars
    /\ [](exc = "none" =>
             /\ RunMessages =
                   FirstMilestones(StageIdx(pc)
                       + (IF pc \in LogLines \/ pc = 96 THEN 0 ELSE 1))
             /\ Len(connections) = (IF pc >= 89 THEN 1 ELSE 0)
             /\ sql_conn = Len(connections)
             /\ (pc \in 89..90 => connections[1] = [open |-> TRUE, ops |-> <<>>])
             /\ (pc \in 91..92 =>
                    connections[1] = [open |-> TRUE, ops |-> <<"to_sql">>])
             /\ (pc \in 94..95 =>
                    connections[1] = [open |-> TRUE, ops |-> <<"to_sql", "read_sql">>])
             /\ (pc = 96 =>
                    connections[1] = [open |-> FALSE, ops |-> <<"to_sql", "read_sql">>]))
    /\ (pc = 81 /\ exc = "none") ~>
          (exc # "none" \/ (Stage(pc) = "DONE" /\ ~connections[sql_conn].open))

\* A run has reached DONE with its one connection closed.
C9_Witness ==
    /\ exc = "none"
    /\ Stage(pc) = "DONE"
    /\ Len(connections) = 1
    /\ ~connections[1].open
    /\ Len(RunMessages) = 7

\* C10: a stage that raises ends the run where it is.  Nothing of the
\* process moves afterwards, its log lines are the milestones logged before
\* the failing line, a connection it had opened stays open, and only a run
\* that got through every stage has a closed connection.
C10_FailureStopsRun ==
    /\ [][(exc # "none" /\ runs' = runs) =>
             UNCHANGED <<pc, exc, df, csvFile, db, connections, sql_conn,
                         stdout, logFile>>]_vars
    /\ [][(exc = "none" /\ exc' # "none") =>
             UNCHANGED <<pc, df, sql_conn, logFile>>]_vars
    /\ [](exc # "none" =>
             /\ RunMessages =
                   FirstMilestones(Cardinality({l \in LogLines : l < pc}))
             /\ \A c \in DOMAIN connections : connections[c].open)
    /\ []((\E c \in DOMAIN connections : ~connections[c].open) =>
             exc = "none" /\ pc = 96)

\* A run failed while loading the table, its connection still open.
C10_Witness ==
    /\ exc # "none"
    /\ pc = 90
    /\ sql_conn = 1
    /\ connections[1].open
    /\ Len(RunMessages) = 5

=============================================================================
